---- MODULE Spec2Model ----
(***************************************************************************)
(* Model of port-assignments/port-assignments-to-rust-match.py: the script *)
(* reads the children of the IANA registry document, aggregates the        *)
(* (service, protocol) -> ports table and prints a Rust match statement.   *)
(* Text is modelled as a sequence of one-character strings so that         *)
(* lower(), split(), int(), str() and join() are computed, not assumed.    *)
(***************************************************************************)
EXTENDS Integers, Sequences, FiniteSets, TLC

\* Bound on the number of children of the registry document.
MaxRecords == 3

TAG_PREFIX == "{http://www.iana.org/assignments}"
TAG_RECORD == "{http://www.iana.org/assignments}record"
TAG_TITLE == "{http://www.iana.org/assignments}title"

\* 2 ** 16, the exclusive upper bound of verify_port.
PortLimit == 65536

\* Element.find(...) is None or Element.text is None.
None == <<>>

Some(text) == <<text>>

-----------------------------------------------------------------------------
(* Text helpers: str.lower, str.split, int, str, sorted, str.join.         *)

UpperCase ==
    <<"A","B","C","D","E","F","G","H","I","J","K","L","M",
      "N","O","P","Q","R","S","T","U","V","W","X","Y","Z">>

LowerCase ==
    <<"a","b","c","d","e","f","g","h","i","j","k","l","m",
      "n","o","p","q","r","s","t","u","v","w","x","y","z">>

LowerChar(c) ==
    IF \E k \in 1..26 : UpperCase[k] = c
    THEN LowerCase[CHOOSE k \in 1..26 : UpperCase[k] = c]
    ELSE c

lower(s) == [k \in 1..Len(s) |-> LowerChar(s[k])]

RECURSIVE split(_, _)
split(s, sep) ==
    IF \A k \in 1..Len(s) : s[k] # sep
    THEN <<s>>
    ELSE LET k == CHOOSE k \in 1..Len(s) :
                      s[k] = sep /\ \A j \in 1..(k - 1) : s[j] # sep
         IN  <<SubSeq(s, 1, k - 1)>> \o split(SubSeq(s, k + 1, Len(s)), sep)

Digits == <<"0","1","2","3","4","5","6","7","8","9">>

IsDigit(c) == \E k \in 1..10 : Digits[k] = c

DigitVal(c) == (CHOOSE k \in 1..10 : Digits[k] = c) - 1

RECURSIVE DigitsValue(_)
DigitsValue(s) ==
    IF Len(s) = 0 THEN 0
    ELSE 10 * DigitsValue(SubSeq(s, 1, Len(s) - 1)) + DigitVal(s[Len(s)])

\* int(text): an optional sign followed by one or more decimal digits;
\* anything else is a ValueError (ok = FALSE).
int(s) ==
    LET signed == Len(s) > 0 /\ s[1] \in {"+", "-"}
        body   == IF signed THEN Tail(s) ELSE s
    IN  IF Len(body) = 0 \/ \E k \in 1..Len(body) : ~IsDigit(body[k])
        THEN [ok |-> FALSE, val |-> 0]
        ELSE [ok |-> TRUE,
              val |-> IF signed /\ s[1] = "-" THEN 0 - DigitsValue(body)
                      ELSE DigitsValue(body)]

\* str(n) for n >= 0.
RECURSIVE str(_)
str(n) ==
    IF n < 10 THEN <<Digits[n + 1]>>
    ELSE str(n \div 10) \o <<Digits[(n % 10) + 1]>>

RECURSIVE sorted_desc(_)
sorted_desc(S) ==
    IF S = {} THEN <<>>
    ELSE LET m == CHOOSE m \in S : \A x \in S : m >= x
         IN  <<m>> \o sorted_desc(S \ {m})

RECURSIVE sorted(_)
sorted(S) ==
    IF S = {} THEN <<>>
    ELSE LET m == CHOOSE m \in S : \A x \in S : m <= x
         IN  <<m>> \o sorted(S \ {m})

\* ", ".join(list)
RECURSIVE join(_)
join(list) ==
    IF Len(list) = 0 THEN <<>>
    ELSE IF Len(list) = 1 THEN list[1]
    ELSE list[1] \o <<",", " ">> \o join(Tail(list))

-----------------------------------------------------------------------------
(* The registry document: the children of the root element.                *)

foo == <<"f","o","o">>
FOO == <<"F","O","O">>
bar == <<"b","a","r">>
baz == <<"b","a","z">>
tcp == <<"t","c","p">>
TCP == <<"T","C","P">>
udp == <<"u","d","p">>
UDP == <<"U","D","P">>

Child(tag, name, protocol, number) ==
    [tag |-> tag, name |-> name, protocol |-> protocol, number |-> number]

Record(name, protocol, number) ==
    Child(TAG_RECORD, Some(name), Some(protocol), Some(number))

\* Children the document may contain.
Children ==
    { Record(foo, tcp, <<"1","0">>),
      Record(foo, tcp, <<"8","-","9">>),
      Record(bar, udp, <<"1","0">>),
      Record(FOO, TCP, <<"2","1","-","2","0">>),
      Record(foo, udp, <<"2","0","-","2","1">>),
      Record(foo, udp, <<"6","5","5","3","5","-","6","5","5","3","5">>),
      Record(bar, udp, <<"6","5","5","3","6">>),
      Record(foo, tcp, <<"-","1">>),
      Record(foo, tcp, <<"1","-","2","-","3">>),
      Record(FOO, tcp, <<"1","-","X","-","3">>),
      Record(bar, udp, <<"X">>),
      Child(TAG_RECORD, None, Some(tcp), Some(<<"6","5","5","3","6">>)),
      Child(TAG_RECORD, Some(foo), None, Some(<<"1","-","2","-","3">>)),
      Child(TAG_RECORD, Some(foo), Some(tcp), None),
      Child(TAG_TITLE, Some(foo), Some(tcp), Some(<<"1","0">>)) }

Documents == UNION {[1..n -> Children] : n \in 0..MaxRecords}

-----------------------------------------------------------------------------
(* Program state.                                                          *)

VARIABLES
    input,      \* children of element_tree.getroot()
    pos,        \* number of children the for loop of line 75 has taken
    services,   \* the dict, as the sequence of its values in insertion order
    service,    \* the global name `service`: index of the Service it is
                \* bound to, 0 while it is bound to a str (line 85) or unbound
    idx,        \* number of values the for loop of line 125 has taken
    pc,         \* "read", "loop", "arm", "done" or "error"
    out,        \* lines printed so far
    err,        \* the ValueError that ended the run
    calls       \* the `self` of every finalize call so far, in call order

vars == <<input, pos, services, service, idx, pc, out, err, calls>>

NoError == [kind |-> "none", literal |-> <<>>]

\* raise ValueError(...) of line 67 and of line 114, with the text the
\* message quotes.
InvalidPort(literal) == [kind |-> "InvalidPort", literal |-> literal]

InvalidPortFormat(literal) == [kind |-> "InvalidPortFormat", literal |-> literal]

-----------------------------------------------------------------------------
(* class Service                                                           *)

\* Service.__init__: ports starts as the set {port}.  `ports` is the set
\* while is_set holds; afterwards `items` is what the map object still yields.
Service(name, protocol, port) ==
    [name |-> name, protocol |-> protocol, ports |-> {port},
     is_set |-> TRUE, items |-> <<>>]

add_port(self, port) == [self EXCEPT !.ports = @ \cup {port}]

MapStr(list) == [k \in 1..Len(list) |-> str(list[k])]

finalize_first(svcs, self, global_service) ==
    [svcs EXCEPT ![1] =
        [@ EXCEPT !.items = MapStr(sorted(svcs[1].ports)),
                  !.ports = {},
                  !.is_set = FALSE]]

finalize_unsorted(svcs, self, global_service) ==
    [svcs EXCEPT ![global_service] =
        [@ EXCEPT !.items = MapStr(sorted_desc(svcs[global_service].ports)),
                  !.ports = {},
                  !.is_set = FALSE]]

\* Service.finalize: the body reads the global `service`, not `self`.
finalize(svcs, self, global_service) ==
    [svcs EXCEPT ![global_service] =
        [@ EXCEPT !.items = MapStr(sorted(svcs[global_service].ports)),
                  !.ports = {},
                  !.is_set = FALSE]]

-----------------------------------------------------------------------------
(* parse_record and verify_port                                            *)

parse_record_keep_case(record) ==
    IF record.name = None THEN None
    ELSE IF record.protocol = None THEN None
    ELSE IF record.number = None THEN None
    ELSE Some(<<record.name[1], record.protocol[1], lower(record.number[1])>>)

parse_record_lenient(record) ==
    LET text(field) == IF field = None THEN <<>> ELSE lower(field[1])
    IN  IF record.name = None THEN None
        ELSE Some(<<text(record.name), text(record.protocol), text(record.number)>>)

\* None when a field is missing, otherwise the three lowercased texts.
parse_record(record) ==
    IF record.name = None THEN None
    ELSE IF record.protocol = None THEN None
    ELSE IF record.number = None THEN None
    ELSE Some(<<lower(record.name[1]), lower(record.protocol[1]),
                lower(record.number[1])>>)

\* The bare except catches the ValueError of int() and the two raised in
\* the try block alike, and raises the one of line 67, which quotes `port`.
verify_port(port) ==
    LET r == int(port)
    IN  IF ~r.ok THEN [ok |-> FALSE, val |-> 0, err |-> InvalidPort(port)]
        ELSE IF r.val < 0 THEN [ok |-> FALSE, val |-> 0, err |-> InvalidPort(port)]
        ELSE IF r.val >= PortLimit THEN [ok |-> FALSE, val |-> 0, err |-> InvalidPort(port)]
        ELSE [ok |-> TRUE, val |-> r.val, err |-> NoError]

-----------------------------------------------------------------------------
(* The dict `services` and the body of the for loop of line 75.            *)

\* Position of the key (name, protocol) in the dict, 0 when absent.
KeyIndex(svcs, name, protocol) ==
    IF \E k \in 1..Len(svcs) : svcs[k].name = name /\ svcs[k].protocol = protocol
    THEN CHOOSE k \in 1..Len(svcs) : svcs[k].name = name /\ svcs[k].protocol = protocol
    ELSE 0

\* Lines 91-94 and 108-111: add to the entry of the key, or create it.
put(svcs, name, protocol, port) ==
    LET k == KeyIndex(svcs, name, protocol)
    IN  IF k # 0
        THEN [svcs EXCEPT ![k] = add_port(@, port)]
        ELSE Append(svcs, Service(name, protocol, port))

RECURSIVE put_each(_, _, _, _, _)
put_each(svcs, name, protocol, first, stop) ==
    IF first >= stop THEN svcs
    ELSE put_each(put(svcs, name, protocol, first), name, protocol, first + 1, stop)

put_range_exclusive(svcs, name, protocol, lower_port, upper_port) ==
    put_each(svcs, name, protocol, lower_port, upper_port)

\* Lines 107-111: for port in range(lower_port, upper_port + 1).
put_range(svcs, name, protocol, lower_port, upper_port) ==
    put_each(svcs, name, protocol, lower_port, upper_port + 1)

\* The child the for loop of line 75 takes next.
child == input[pos + 1]

Reading == pc = "read" /\ pos < Len(input)

\* Lines 77-78: not a record.
SkipChild ==
    /\ Reading
    /\ child.tag # TAG_RECORD
    /\ pos' = pos + 1
    /\ UNCHANGED <<input, services, service, idx, pc, out, err, calls>>

\* Lines 81-83: a record with a missing field.
SkipIncomplete ==
    /\ Reading
    /\ child.tag = TAG_RECORD
    /\ parse_record(child) = None
    /\ pos' = pos + 1
    /\ UNCHANGED <<input, services, service, idx, pc, out, err, calls>>

\* Lines 85-94: one segment, a valid port.
SinglePort ==
    /\ Reading
    /\ child.tag = TAG_RECORD
    /\ parse_record(child) # None
    /\ LET record     == parse_record(child)[1]
           split_port == split(record[3], "-")
       IN  /\ Len(split_port) = 1
           /\ verify_port(record[3]).ok
           /\ services' = put(services, record[1], record[2],
                              verify_port(record[3]).val)
    /\ pos' = pos + 1
    /\ service' = 0
    /\ UNCHANGED <<input, idx, pc, out, err, calls>>

\* Lines 85-87 and 97-111: two segments, both valid ports.
PortRange ==
    /\ Reading
    /\ child.tag = TAG_RECORD
    /\ parse_record(child) # None
    /\ LET record     == parse_record(child)[1]
           split_port == split(record[3], "-")
       IN  /\ Len(split_port) = 2
           /\ verify_port(split_port[1]).ok
           /\ verify_port(split_port[2]).ok
           /\ LET a == verify_port(split_port[1]).val
                  b == verify_port(split_port[2]).val
                  lower_port == IF a > b THEN b ELSE a
                  upper_port == IF a > b THEN a ELSE b
              IN  services' = put_range(services, record[1], record[2],
                                        lower_port, upper_port)
    /\ pos' = pos + 1
    /\ service' = 0
    /\ UNCHANGED <<input, idx, pc, out, err, calls>>

\* The ValueError of verify_port the record raises, NoError when it
\* raises none (lines 90, 98 and 99, in that order).
PortError(record) ==
    LET split_port == split(record[3], "-")
    IN  IF Len(split_port) = 1 THEN verify_port(record[3]).err
        ELSE IF Len(split_port) = 2
        THEN IF ~verify_port(split_port[1]).ok
             THEN verify_port(split_port[1]).err
             ELSE verify_port(split_port[2]).err
        ELSE NoError

RaiseInvalidPort_continue ==
    /\ Reading
    /\ child.tag = TAG_RECORD
    /\ parse_record(child) # None
    /\ PortError(parse_record(child)[1]) # NoError
    /\ err' = PortError(parse_record(child)[1])
    /\ pos' = pos + 1
    /\ service' = 0
    /\ UNCHANGED <<input, services, idx, pc, out, calls>>

\* Lines 90, 98, 99: verify_port raises and nothing catches it.
RaiseInvalidPort ==
    /\ Reading
    /\ child.tag = TAG_RECORD
    /\ parse_record(child) # None
    /\ PortError(parse_record(child)[1]) # NoError
    /\ err' = PortError(parse_record(child)[1])
    /\ pc' = "error"
    /\ pos' = pos + 1
    /\ service' = 0
    /\ UNCHANGED <<input, services, idx, out, calls>>

RaiseInvalidPortFormat_as_port ==
    /\ Reading
    /\ child.tag = TAG_RECORD
    /\ parse_record(child) # None
    /\ LET record == parse_record(child)[1]
       IN  /\ Len(split(record[3], "-")) \notin {1, 2}
           /\ err' = InvalidPort(split(record[3], "-")[1])
    /\ pc' = "error"
    /\ pos' = pos + 1
    /\ service' = 0
    /\ UNCHANGED <<input, services, idx, out, calls>>

\* Lines 113-114: neither one nor two segments.
RaiseInvalidPortFormat ==
    /\ Reading
    /\ child.tag = TAG_RECORD
    /\ parse_record(child) # None
    /\ LET record == parse_record(child)[1]
       IN  /\ Len(split(record[3], "-")) \notin {1, 2}
           /\ err' = InvalidPortFormat(record[3])
    /\ pc' = "error"
    /\ pos' = pos + 1
    /\ service' = 0
    /\ UNCHANGED <<input, services, idx, out, calls>>

-----------------------------------------------------------------------------
(* Lines 120-132: the printed Rust function.                               *)

Line(fmt, args) == [fmt |-> fmt, args |-> args]

ARM_FMT == "        (\"{0}\", \"{1}\") => Ok(&[{2}]),"

FALLBACK_FMT ==
    "        _ => Err(PortError::UnknownMnemonic(service.to_string(), protocol.clone()))"

Header ==
    << Line("use super::{protocol::Protocol, ports::PortError};", <<>>),
       Line("", <<>>),
       Line("#[inline]", <<>>),
       Line("pub fn port_from_service(service: &str, protocol: &Protocol) -> Result<&'static [u16], PortError> {", <<>>),
       Line("    match (service.to_lowercase().as_str(), protocol.mnemonic().to_lowercase().as_str()) {", <<>>) >>

Footer ==
    << Line(FALLBACK_FMT, <<>>),
       Line("    }", <<>>),
       Line("}", <<>>) >>

PrintHeader_early ==
    /\ pc = "read"
    /\ out' = out \o Header
    /\ pc' = "loop"
    /\ UNCHANGED <<input, pos, services, service, idx, err, calls>>

\* Lines 120-124, reached when the for loop of line 75 is exhausted.
PrintHeader ==
    /\ pc = "read"
    /\ pos = Len(input)
    /\ out' = out \o Header
    /\ pc' = "loop"
    /\ UNCHANGED <<input, pos, services, service, idx, err, calls>>

\* Lines 125-127: the loop binds `service` to the next value of the dict
\* and calls service.finalize().
FinalizeService ==
    /\ pc = "loop"
    /\ idx < Len(services)
    /\ idx' = idx + 1
    /\ service' = idx + 1
    /\ services' = finalize(services, idx + 1, idx + 1)
    /\ calls' = Append(calls, idx + 1)
    /\ pc' = "arm"
    /\ UNCHANGED <<input, pos, out, err>>

\* Line 129: join drains the map object of service.ports.
PrintArm ==
    /\ pc = "arm"
    /\ out' = Append(out, Line(ARM_FMT, <<services[service].name,
                                          services[service].protocol,
                                          join(services[service].items)>>))
    /\ services' = [services EXCEPT ![service].items = <<>>]
    /\ pc' = "loop"
    /\ UNCHANGED <<input, pos, service, idx, err, calls>>

PrintFooter_none ==
    /\ pc = "loop"
    /\ idx = Len(services)
    /\ out' = out \o Tail(Footer)
    /\ pc' = "done"
    /\ UNCHANGED <<input, pos, services, service, idx, err, calls>>

\* Lines 130-132, reached when the for loop of line 125 is exhausted.
PrintFooter ==
    /\ pc = "loop"
    /\ idx = Len(services)
    /\ out' = out \o Footer
    /\ pc' = "done"
    /\ UNCHANGED <<input, pos, services, service, idx, err, calls>>

-----------------------------------------------------------------------------

Init ==
    /\ input \in Documents
    /\ pos = 0
    /\ services = <<>>
    /\ service = 0
    /\ idx = 0
    /\ pc = "read"
    /\ out = <<>>
    /\ err = NoError
    /\ calls = <<>>

Next ==
    \/ SkipChild
    \/ SkipIncomplete
    \/ SinglePort
    \/ PortRange
    \/ RaiseInvalidPort
    \/ RaiseInvalidPortFormat
    \/ PrintHeader
    \/ FinalizeService
    \/ PrintArm
    \/ PrintFooter

Spec == Init /\ [][Next]_vars

-----------------------------------------------------------------------------
(* The printed function, read back: a Rust match takes the first arm whose *)
(* pattern equals the lowercased query; `_` matches every query.           *)

strip(text) == IF Len(text) > 0 /\ text[1] = " " THEN Tail(text) ELSE text

\* The array literal &[{2}] of an arm.
rust_array(text) ==
    IF Len(text) = 0 THEN <<>>
    ELSE LET seg == split(text, ",")
         IN  [k \in 1..Len(seg) |-> DigitsValue(strip(seg[k]))]

Ok(ports) ==
    [kind |-> "Ok", ports |-> ports, service |-> <<>>, protocol |-> <<>>]

UnknownMnemonic(name, protocol) ==
    [kind |-> "Err", ports |-> <<>>, service |-> name, protocol |-> protocol]

NoArm == [kind |-> "NoArm", ports |-> <<>>, service |-> <<>>, protocol |-> <<>>]

RECURSIVE match_arms(_, _, _, _)
match_arms(lines, k, name, protocol) ==
    IF k > Len(lines) THEN NoArm
    ELSE IF /\ lines[k].fmt = ARM_FMT
            /\ lines[k].args[1] = lower(name)
            /\ lines[k].args[2] = lower(protocol)
         THEN Ok(rust_array(lines[k].args[3]))
    ELSE IF lines[k].fmt = FALLBACK_FMT THEN UnknownMnemonic(name, protocol)
    ELSE match_arms(lines, k + 1, name, protocol)

port_from_service(lines, name, protocol) == match_arms(lines, 1, name, protocol)

-----------------------------------------------------------------------------
(* What the input calls for, stated over the document itself.              *)

Complete(c) ==
    c.tag = TAG_RECORD /\ c.name # None /\ c.protocol # None /\ c.number # None

ValidPort(text) == int(text).ok /\ int(text).val \in 0..(PortLimit - 1)

Segments(c) == split(c.number[1], "-")

FatalSpec(c) ==
    \/ Len(Segments(c)) \notin {1, 2}
    \/ \E k \in 1..Len(Segments(c)) : ~ValidPort(Segments(c)[k])

KeyOf(c) == <<lower(c.name[1]), lower(c.protocol[1])>>

Between(a, b) == IF a <= b THEN a..b ELSE b..a

Expansion(c) ==
    IF Len(Segments(c)) = 1 THEN {int(Segments(c)[1]).val}
    ELSE Between(int(Segments(c)[1]).val, int(Segments(c)[2]).val)

\* The complete records among the children taken so far.
Taken == {k \in 1..pos : Complete(input[k])}

ExpectedKeys == {KeyOf(input[k]) : k \in Taken}

ExpectedPorts(key) ==
    UNION {Expansion(input[k]) : k \in {j \in Taken : KeyOf(input[j]) = key}}

EntryKey(e) == <<e.name, e.protocol>>

PortsOf(svcs, key) ==
    IF KeyIndex(svcs, key[1], key[2]) = 0 THEN {}
    ELSE svcs[KeyIndex(svcs, key[1], key[2])].ports

Arms == SelectSeq(out, LAMBDA l : l.fmt = ARM_FMT)

ArmPorts(arm) == rust_array(arm.args[3])

SeqToSet(q) == {q[k] : k \in 1..Len(q)}

Count(q, x) == Cardinality({k \in 1..Len(q) : q[k] = x})

Queries == {foo, FOO, bar, baz} \X {tcp, TCP, udp}

-----------------------------------------------------------------------------
(* C1: while records are being read, and again once the function has been  *)
(* printed, the table holds exactly one entry per distinct lowercased      *)
(* (name, protocol) pair of the complete records, and its ports are the    *)
(* union of the expansions of the port-specs of the records of that key.   *)
C1_Aggregation ==
    /\ pc = "read" =>
          /\ \A j, k \in 1..Len(services) :
                 EntryKey(services[j]) = EntryKey(services[k]) => j = k
          /\ {EntryKey(services[k]) : k \in 1..Len(services)} = ExpectedKeys
          /\ \A k \in 1..Len(services) :
                 services[k].ports = ExpectedPorts(EntryKey(services[k]))
    /\ pc = "done" =>
          /\ Len(Arms) = Cardinality(ExpectedKeys)
          /\ {<<Arms[k].args[1], Arms[k].args[2]>> : k \in 1..Len(Arms)} = ExpectedKeys
          /\ \A k \in 1..Len(Arms) :
                 /\ SeqToSet(ArmPorts(Arms[k])) =
                        ExpectedPorts(<<Arms[k].args[1], Arms[k].args[2]>>)
                 /\ Len(ArmPorts(Arms[k])) =
                        Cardinality(ExpectedPorts(<<Arms[k].args[1], Arms[k].args[2]>>))

\* The end-to-end example: foo/tcp 10, foo/tcp 8-9, bar/udp 10.
C1_EndToEnd ==
    /\ pc = "done"
    /\ input = << Record(foo, tcp, <<"1","0">>),
                  Record(foo, tcp, <<"8","-","9">>),
                  Record(bar, udp, <<"1","0">>) >>
    /\ Arms = << Line(ARM_FMT, <<foo, tcp, <<"8",","," ","9",","," ","1","0">> >>),
                 Line(ARM_FMT, <<bar, udp, <<"1","0">> >>) >>

(* C2: consuming a record whose port-spec has two segments that are both   *)
(* valid ports a and b adds exactly min(a,b)..max(a,b) to the ports of the *)
(* record's key, leaves every other key alone and raises nothing.          *)
C2_RangeInclusive ==
    [][ (/\ Reading
         /\ pos' = pos + 1
         /\ Complete(child)
         /\ Len(Segments(child)) = 2
         /\ ValidPort(Segments(child)[1])
         /\ ValidPort(Segments(child)[2]))
        => LET a == int(Segments(child)[1]).val
               b == int(Segments(child)[2]).val
               lo == IF a < b THEN a ELSE b
               hi == IF a < b THEN b ELSE a
           IN  /\ pc' = "read"
               /\ PortsOf(services', KeyOf(child)) =
                      PortsOf(services, KeyOf(child)) \cup (lo..hi)
               /\ \A k \in 1..Len(services) :
                      EntryKey(services[k]) # KeyOf(child)
                          => services'[k] = services[k]
               /\ \A k \in 1..Len(services') :
                      k > Len(services) => EntryKey(services'[k]) = KeyOf(child)
      ]_vars

\* "21-20" has contributed exactly {20, 21}.
C2_Reversed ==
    /\ pc = "read"
    /\ pos = 1
    /\ input[1] = Record(FOO, TCP, <<"2","1","-","2","0">>)
    /\ Len(services) = 1
    /\ services[1].ports = {20, 21}

(* C3: a record whose port value is "65536" or "-1" ends the run with the  *)
(* InvalidPort error, and the error quotes that port value.                *)
C3_BoundsRejection ==
    \A k \in 1..pos :
        (/\ Complete(input[k])
         /\ input[k].number[1] \in {<<"6","5","5","3","6">>, <<"-","1">>})
        => /\ pc = "error"
           /\ err = InvalidPort(input[k].number[1])

(* C4: every printed entry lists at least one port, every port lies in     *)
(* 0..65535 and the list is strictly ascending.                            *)
C4_SortInvariant ==
    \A k \in 1..Len(Arms) :
        LET ports == ArmPorts(Arms[k])
        IN  /\ Len(ports) >= 1
            /\ \A j \in 1..Len(ports) : ports[j] \in 0..65535
            /\ \A j \in 1..(Len(ports) - 1) : ports[j] < ports[j + 1]

\* 65535-65535 read before 20-21, printed as 20, 21, 65535.
C4_SortedArm ==
    /\ pc = "done"
    /\ Len(input) = 2
    /\ input[1] = Record(foo, udp, <<"6","5","5","3","5","-","6","5","5","3","5">>)
    /\ input[2] = Record(foo, udp, <<"2","0","-","2","1">>)
    /\ Len(Arms) = 1
    /\ ArmPorts(Arms[1])[1] = 20
    /\ ArmPorts(Arms[1])[Len(ArmPorts(Arms[1]))] = 65535

(* C5: when some record of the document has a fatal port-spec, nothing is  *)
(* ever printed and the run never completes: it is still reading, or it    *)
(* has ended in the error state.                                           *)
C5_NoPartialOutput ==
    (\E k \in 1..Len(input) : Complete(input[k]) /\ FatalSpec(input[k]))
    => /\ out = <<>>
       /\ pc \in {"read", "error"}
       /\ (\E k \in 1..pos : Complete(input[k]) /\ FatalSpec(input[k]))
              => pc = "error" /\ err # NoError

C5_AbortedAfterValid ==
    /\ pc = "error"
    /\ pos = 2
    /\ Len(input) = 3
    /\ Len(services) = 1
    /\ Complete(input[3]) /\ ~FatalSpec(input[3])
    /\ out = <<>>

(* C6: consuming a record that lacks its name, protocol or port-spec       *)
(* leaves the table, the output and the error untouched and the loop goes  *)
(* on reading.                                                             *)
C6_SkipIncomplete ==
    [][ (/\ Reading
         /\ pos' = pos + 1
         /\ child.tag = TAG_RECORD
         /\ (child.name = None \/ child.protocol = None \/ child.number = None))
        => /\ services' = services
           /\ out' = out
           /\ err' = err
           /\ pc' = "read"
      ]_vars

C6_SkippedThenProcessed ==
    /\ pos = 2
    /\ input[1] = Child(TAG_RECORD, Some(foo), None, Some(<<"1","-","2","-","3">>))
    /\ Complete(input[2])
    /\ Len(services) = 1
    /\ pc = "read"

(* C7: a record whose port-spec has neither one nor two segments ends the  *)
(* run with the InvalidPortFormat error, which quotes the whole port-spec  *)
(* (in the lowercase parse_record gives it).                               *)
C7_FormatRejection ==
    \A k \in 1..pos :
        (Complete(input[k]) /\ Len(Segments(input[k])) \notin {1, 2})
        => /\ pc = "error"
           /\ err.kind = "InvalidPortFormat"
           /\ err # InvalidPort(err.literal)
           /\ err.literal = lower(input[k].number[1])

C7_ThreeSegments ==
    /\ pc = "error"
    /\ pos = 2
    /\ input[2].number = Some(<<"1","-","2","-","3">>)
    /\ err.literal = <<"1","-","2","-","3">>

(* C8: in a completed run the printed function answers a query whose       *)
(* lowercased pair is a key of the table with that key's ascending port    *)
(* list, and any other query with the unknown-service error carrying the   *)
(* queried name and protocol; no answer is an empty list, and the fallback *)
(* arm is printed once, after every entry.                                 *)
C8_Lookup ==
    pc = "done" =>
        /\ \A q \in Queries :
             LET key == <<lower(q[1]), lower(q[2])>>
                 r   == port_from_service(out, q[1], q[2])
             IN  /\ (\E k \in 1..Len(services) :
                        /\ lower(services[k].name) = key[1]
                        /\ lower(services[k].protocol) = key[2])
                       => r = Ok(sorted(ExpectedPorts(key)))
                 /\ ~(\E k \in 1..Len(services) :
                        /\ lower(services[k].name) = key[1]
                        /\ lower(services[k].protocol) = key[2])
                       => r = UnknownMnemonic(q[1], q[2])
                 /\ r # Ok(<<>>)
        /\ Count([k \in 1..Len(out) |-> out[k].fmt], FALLBACK_FMT) = 1
        /\ \A j, k \in 1..Len(out) :
             (out[j].fmt = ARM_FMT /\ out[k].fmt = FALLBACK_FMT) => j < k

C8_HitAndMiss ==
    /\ pc = "done"
    /\ port_from_service(out, FOO, TCP).kind = "Ok"
    /\ port_from_service(out, baz, tcp) = UnknownMnemonic(baz, tcp)
    /\ port_from_service(out, bar, UDP).kind = "Err"

(* C9 as stated: once anything has been printed, every child has been read *)
(* and every entry of the table has been finalized.                        *)
C9_AllFinalizedBeforeOutput ==
    out # <<>> =>
        /\ pos = Len(input)
        /\ \A k \in 1..Len(services) : ~services[k].is_set

(* C9 amended: once anything has been printed, every child has been read   *)
(* and reading is over; each entry has been finalized by the time its own  *)
(* line is printed.                                                        *)
C9_ReadThenEmit ==
    out # <<>> =>
        /\ pos = Len(input)
        /\ pc \in {"loop", "arm", "done"}
        /\ Len(Arms) <= Len(services)
        /\ \A k \in 1..Len(Arms) :
             /\ ~services[k].is_set
             /\ <<Arms[k].args[1], Arms[k].args[2]>> = EntryKey(services[k])

C9_HeaderBeforeFinalize ==
    /\ Len(Arms) = 1
    /\ Len(services) = 2
    /\ services[2].is_set
    /\ pc = "loop"

(* C10 as stated: at the end of every run each entry of the table has been *)
(* finalized exactly once.                                                 *)
C10_OnceInEveryRun ==
    pc \in {"done", "error"} =>
        \A k \in 1..Len(services) : Count(calls, k) = 1

(* C10 amended: no entry is finalized more than once, and in a run that    *)
(* completes each entry is finalized exactly once; finalize is called only *)
(* after the last child has been read, it changes the entry it is called   *)
(* on and no other, and a finalized entry gains no port.                   *)
C10_FinalizeThenFreeze ==
    /\ [](/\ \A k \in 1..Len(services) : Count(calls, k) <= 1
          /\ pc = "done" => \A k \in 1..Len(services) : Count(calls, k) = 1
          /\ calls # <<>> => pos = Len(input) /\ pc # "read"
          /\ \A k \in 1..Len(services) :
                 services[k].is_set <=> Count(calls, k) = 0)
    /\ [][ /\ calls' # calls =>
                LET self == calls'[Len(calls')]
                IN  /\ Len(services') = Len(services)
                    /\ \A k \in 1..Len(services) :
                           k # self => services'[k] = services[k]
                    /\ services[self].is_set
                    /\ ~services'[self].is_set
                    /\ services'[self].items = MapStr(sorted(services[self].ports))
           /\ \A k \in 1..Len(services) :
                ~services[k].is_set =>
                    /\ Len(services') = Len(services)
                    /\ ~services'[k].is_set
                    /\ services'[k].ports = services[k].ports
         ]_vars

C10_FinalizedOnce ==
    /\ pc = "done"
    /\ Len(services) = 2
    /\ calls = <<1, 2>>

====
